---- MODULE Spec2Model ----
(***************************************************************************)
(* Model of lf_workflow_dash/data_types.py: the WorkflowElemData and       *)
(* ProjectData records and the calculate_statistics roll-up.               *)
(*                                                                         *)
(* Python strings whose structure matters (URLs, conclusion times, version *)
(* strings) are sequences of string tokens, so that concatenation is \o    *)
(* and str.replace is a token-wise map.  Enumerated strings (statuses, CSS *)
(* classes) are TLA+ strings.  An optional object (None or a value) is a   *)
(* sequence of length 0 or 1, so that Python truthiness is Len(x) > 0.     *)
(* A percentage rounded to one decimal is held as an integer number of     *)
(* tenths (25.0 is 250).                                                   *)
(***************************************************************************)
EXTENDS Integers, Sequences, FiniteSets, TLC

VARIABLES wf, lastCall, all_projects, cursor, stats, project

vars == <<wf, lastCall, all_projects, cursor, stats, project>>

----------------------------------------------------------------------------
(* Bounds *)

(* MaxTimeLen: tokens in a conclusion-time string.                         *)
(* MaxEntries: entries in the "repos" configuration, counting each item    *)
(* and each workflow it names.                                             *)
MaxTimeLen == 2
MaxEntries == 3

----------------------------------------------------------------------------
(* Strings *)

EmptyStr == << >>

DigitChar == <<"0", "1", "2", "3", "4", "5", "6", "7", "8", "9">>

RECURSIVE IntToStr(_)
IntToStr(n) ==
    IF n < 10 THEN <<DigitChar[n + 1]>>
    ELSE IntToStr(n \div 10) \o <<DigitChar[(n % 10) + 1]>>

(* str.replace("<br>", " ") on a token sequence *)
ReplaceBr(s) == [i \in 1..Len(s) |-> IF s[i] = "<br>" THEN " " ELSE s[i]]

RECURSIVE SeqsUpTo(_, _)
SeqsUpTo(S, n) ==
    IF n = 0 THEN {<< >>}
    ELSE LET shorter == SeqsUpTo(S, n - 1)
         IN  shorter \cup {Append(s, x) : s \in {t \in shorter : Len(t) = n - 1}, x \in S}

----------------------------------------------------------------------------
(* WorkflowElemData *)

Statuses == {"success", "failure", "pending", "cancelled"}

TimeTokens == {"1 day", "<br>", "ago"}

ConclusionTimes == SeqsUpTo(TimeTokens, MaxTimeLen)

WorkflowUrl(repo_url, workflow_name) ==
    repo_url \o <<"/actions/workflows/">> \o workflow_name

NewWorkflowElemData(workflow_name, repo_url, owner, repo, branch) ==
    [workflow_name |-> workflow_name,
     workflow_url |-> WorkflowUrl(repo_url, workflow_name),
     workflow_status |-> "pending",
     display_class |-> "yellow-cell",
     icon_class |-> "fa-solid fa-circle-question",
     owner |-> owner,
     repo |-> repo,
     conclusion_time |-> EmptyStr,
     conclusion_time_one_line |-> EmptyStr,
     is_stale |-> FALSE,
     friendly_name |-> EmptyStr,
     branch |-> branch]

DisplayAfter(w, status) ==
    IF status = "success" THEN "green-cell"
    ELSE IF status = "failure" THEN "red-cell"
    ELSE w.display_class

IconAfter(w, status) ==
    IF status = "success" THEN "fa-solid fa-circle-check"
    ELSE IF status = "failure" THEN "fa-solid fa-circle-xmark"
    ELSE w.icon_class

set_statusAppending(w, status, conclusion_time, is_stale) ==
    [w EXCEPT !.workflow_status = status,
              !.conclusion_time = conclusion_time,
              !.conclusion_time_one_line =
                  w.conclusion_time_one_line \o ReplaceBr(conclusion_time),
              !.is_stale = is_stale,
              !.display_class = DisplayAfter(w, status),
              !.icon_class = IconAfter(w, status)]

set_status(w, status, conclusion_time, is_stale) ==
    [w EXCEPT !.workflow_status = status,
              !.conclusion_time = conclusion_time,
              !.conclusion_time_one_line = ReplaceBr(conclusion_time),
              !.is_stale = is_stale,
              !.display_class = DisplayAfter(w, status),
              !.icon_class = IconAfter(w, status)]

----------------------------------------------------------------------------
(* ProjectData *)

RepoUrl(owner, repo) == <<"https://github.com/">> \o owner \o <<"/">> \o repo

NewProjectData(owner, repo) ==
    [owner |-> owner,
     repo |-> repo,
     icon |-> EmptyStr,
     repo_url |-> RepoUrl(owner, repo),
     copier_version |-> EmptyStr,
     copier_version_display_class |-> "yellow-cell",
     passing_workflows |-> 0,
     failing_workflows |-> 0,
     smoke_test |-> << >>,
     build_docs |-> << >>,
     benchmarks |-> << >>,
     live_build |-> << >>,
     other_workflows |-> << >>]

(* str(semver.Version) for a release version <<major, minor, patch>> *)
VersionStr(v) ==
    IntToStr(v[1]) \o <<".">> \o IntToStr(v[2]) \o <<".">> \o IntToStr(v[3])

(* semver.Version.__lt__: numeric precedence of major, minor, patch *)
VersionLess(a, b) ==
    \/ a[1] < b[1]
    \/ a[1] = b[1] /\ a[2] < b[2]
    \/ a[1] = b[1] /\ a[2] = b[2] /\ a[3] < b[3]

CharRank(c) ==
    IF c = "." THEN 0 ELSE CHOOSE i \in 1..10 : DigitChar[i] = c

RECURSIVE LexLess(_, _)
LexLess(s, t) ==
    IF t = << >> THEN FALSE
    ELSE IF s = << >> THEN TRUE
    ELSE IF CharRank(Head(s)) # CharRank(Head(t))
         THEN CharRank(Head(s)) < CharRank(Head(t))
    ELSE LexLess(Tail(s), Tail(t))

set_copier_versionLexical(p, this_version, template_version) ==
    IF Len(this_version) = 0 THEN p
    ELSE [p EXCEPT !.copier_version = VersionStr(this_version),
                   !.copier_version_display_class =
                       IF LexLess(VersionStr(this_version), VersionStr(template_version))
                       THEN "yellow-cell"
                       ELSE IF this_version = template_version THEN "green-cell"
                       ELSE "red-cell"]

set_copier_version(p, this_version, template_version) ==
    IF Len(this_version) = 0 THEN p
    ELSE [p EXCEPT !.copier_version = VersionStr(this_version),
                   !.copier_version_display_class =
                       IF VersionLess(this_version, template_version)
                       THEN "yellow-cell"
                       ELSE IF this_version = template_version THEN "green-cell"
                       ELSE "red-cell"]

----------------------------------------------------------------------------
(* calculate_statistics *)

(* the effective workflow list built at the top of the loop body *)
WorkflowsNamedOnly(p) ==
    p.smoke_test \o p.build_docs \o p.benchmarks \o p.live_build

Workflows(p) ==
    p.smoke_test \o p.build_docs \o p.benchmarks \o p.live_build
        \o p.other_workflows

ZeroTally ==
    [passing_count |-> 0, failing_count |-> 0, stale_count |-> 0,
     pending_count |-> 0, total_workflows |-> 0,
     project_passing |-> 0, project_failing |-> 0]

ProjectStartKeeping(acc) == acc

ProjectStart(acc) == [acc EXCEPT !.project_passing = 0, !.project_failing = 0]

(* body of the inner loop, with the pending branch written as a bare else *)
TallyWorkflowElse(acc, w) ==
    LET a1 == [acc EXCEPT !.total_workflows = @ + 1]
        a2 == IF w.workflow_status = "success"
              THEN [a1 EXCEPT !.passing_count = @ + 1, !.project_passing = @ + 1]
              ELSE IF w.workflow_status = "failure"
              THEN [a1 EXCEPT !.failing_count = @ + 1, !.project_failing = @ + 1]
              ELSE [a1 EXCEPT !.pending_count = @ + 1]
    IN  IF w.is_stale THEN [a2 EXCEPT !.stale_count = @ + 1] ELSE a2

(* body of the inner loop, with the staleness test chained onto the elif *)
TallyWorkflowElif(acc, w) ==
    LET a1 == [acc EXCEPT !.total_workflows = @ + 1]
    IN  IF w.workflow_status = "success"
        THEN [a1 EXCEPT !.passing_count = @ + 1, !.project_passing = @ + 1]
        ELSE IF w.workflow_status = "failure"
        THEN [a1 EXCEPT !.failing_count = @ + 1, !.project_failing = @ + 1]
        ELSE IF w.workflow_status = "pending"
        THEN [a1 EXCEPT !.pending_count = @ + 1]
        ELSE IF w.is_stale THEN [a1 EXCEPT !.stale_count = @ + 1]
        ELSE a1

TallyWorkflow(acc, w) ==
    LET a1 == [acc EXCEPT !.total_workflows = @ + 1]
        a2 == IF w.workflow_status = "success"
              THEN [a1 EXCEPT !.passing_count = @ + 1, !.project_passing = @ + 1]
              ELSE IF w.workflow_status = "failure"
              THEN [a1 EXCEPT !.failing_count = @ + 1, !.project_failing = @ + 1]
              ELSE IF w.workflow_status = "pending"
              THEN [a1 EXCEPT !.pending_count = @ + 1]
              ELSE a1
    IN  IF w.is_stale THEN [a2 EXCEPT !.stale_count = @ + 1] ELSE a2

RECURSIVE TallyWorkflows(_, _)
TallyWorkflows(acc, ws) ==
    IF ws = << >> THEN acc
    ELSE TallyWorkflows(TallyWorkflow(acc, Head(ws)), Tail(ws))

StoreCountersAdding(p, acc) ==
    [p EXCEPT !.passing_workflows = @ + acc.project_passing,
              !.failing_workflows = @ + acc.project_failing]

StoreCounters(p, acc) ==
    [p EXCEPT !.passing_workflows = acc.project_passing,
              !.failing_workflows = acc.project_failing]

(* the outer loop: the running tally and the projects written so far *)
RECURSIVE TallyProjects(_, _, _)
TallyProjects(acc, done, todo) ==
    IF todo = << >> THEN [acc |-> acc, projects |-> done]
    ELSE LET p == Head(todo)
             a == TallyWorkflows(ProjectStart(acc), Workflows(p))
         IN  TallyProjects(a, Append(done, StoreCounters(p, a)), Tail(todo))

(* round(x, 1) of the quotient n/d, in tenths, ties to even.  The float   *)
(* quotient count / total * 100 is taken as exact: no tie occurs for a     *)
(* total below 16, so the float rounding agrees with it there.             *)
RoundTenths(n, d) ==
    LET q == n \div d
        r == n % d
    IN  IF 2 * r < d THEN q
        ELSE IF 2 * r > d THEN q + 1
        ELSE IF q % 2 = 0 THEN q ELSE q + 1

PercentUnguardedZero(count, total) ==
    IF total > 0 THEN RoundTenths(count * 1000, total) ELSE 1000

Percent(count, total) ==
    IF total > 0 THEN RoundTenths(count * 1000, total) ELSE 0

StatisticsOf(acc, projects) ==
    [passing_count |-> acc.passing_count,
     failing_count |-> acc.failing_count,
     stale_count |-> acc.stale_count,
     pending_count |-> acc.pending_count,
     total_workflows |-> acc.total_workflows,
     passing_percent |-> Percent(acc.passing_count, acc.total_workflows),
     failing_percent |-> Percent(acc.failing_count, acc.total_workflows),
     repo_count |-> Len(projects)]

(* the returned dictionary and the projects as the call leaves them *)
calculate_statistics(projects) ==
    LET r == TallyProjects(ZeroTally, << >>, projects)
    IN  [stats |-> StatisticsOf(r.acc, projects), projects |-> r.projects]

----------------------------------------------------------------------------
(* read_yaml_file: the project list built from the "repos" entries *)

NamedKeys == {"smoke-test", "build-docs", "benchmarks", "live-build"}

Items == [named : SUBSET NamedKeys, others : 0..MaxEntries]

(* entries of one item of "repos": the item itself and each workflow it names *)
ItemSize(item) == 1 + Cardinality(item.named) + item.others

RECURSIVE ReposSize(_)
ReposSize(repos) ==
    IF repos = << >> THEN 0 ELSE ItemSize(Head(repos)) + ReposSize(Tail(repos))

ReposInputs ==
    UNION {{repos \in [1..n -> {item \in Items : ItemSize(item) <= MaxEntries}] :
                ReposSize(repos) <= MaxEntries}
           : n \in 0..MaxEntries}

FleetOwner == <<"test-org">>

RepoName(i) == <<"repo">> \o IntToStr(i)

OtherName(j) == <<"other">> \o IntToStr(j) \o <<".yml">>

LoadProject(owner, repo, item) ==
    LET pd == NewProjectData(owner, repo)
        mk(name, branch) == NewWorkflowElemData(name, pd.repo_url, owner, repo, branch)
    IN  [pd EXCEPT
            !.smoke_test = IF "smoke-test" \in item.named
                           THEN <<mk(<<"smoke.yml">>, EmptyStr)>> ELSE << >>,
            !.build_docs = IF "build-docs" \in item.named
                           THEN <<mk(<<"docs.yml">>, EmptyStr)>> ELSE << >>,
            !.benchmarks = IF "benchmarks" \in item.named
                           THEN <<mk(<<"asv.yml">>, EmptyStr)>> ELSE << >>,
            !.live_build = IF "live-build" \in item.named
                           THEN <<mk(<<"live.yml">>, <<"main">>)>> ELSE << >>,
            !.other_workflows = [j \in 1..item.others |-> mk(OtherName(j), EmptyStr)]]

read_yaml_file(repos) ==
    [i \in 1..Len(repos) |-> LoadProject(FleetOwner, RepoName(i), repos[i])]

----------------------------------------------------------------------------
(* The refresh cycle: statuses are fetched workflow by workflow, in the     *)
(* order of the effective workflow lists, and the roll-up may be taken at   *)
(* any point.                                                               *)

FleetTimes == {<<"1 day", "<br>", "ago">>}

RECURSIVE FleetSize(_)
FleetSize(projects) ==
    IF projects = << >> THEN 0
    ELSE Len(Workflows(Head(projects))) + FleetSize(Tail(projects))

SetInProject(p, j, status, conclusion_time, is_stale) ==
    LET a == Len(p.smoke_test)
        b == a + Len(p.build_docs)
        c == b + Len(p.benchmarks)
        d == c + Len(p.live_build)
        upd(w) == set_status(w, status, conclusion_time, is_stale)
    IN  IF j <= a THEN [p EXCEPT !.smoke_test = <<upd(@[1])>>]
        ELSE IF j <= b THEN [p EXCEPT !.build_docs = <<upd(@[1])>>]
        ELSE IF j <= c THEN [p EXCEPT !.benchmarks = <<upd(@[1])>>]
        ELSE IF j <= d THEN [p EXCEPT !.live_build = <<upd(@[1])>>]
        ELSE [p EXCEPT !.other_workflows[j - d] = upd(@)]

RECURSIVE SetInFleet(_, _, _, _, _)
SetInFleet(projects, k, status, conclusion_time, is_stale) ==
    LET p == Head(projects)
        n == Len(Workflows(p))
    IN  IF k <= n
        THEN <<SetInProject(p, k, status, conclusion_time, is_stale)>> \o Tail(projects)
        ELSE <<p>> \o SetInFleet(Tail(projects), k - n, status, conclusion_time, is_stale)

IdleWorkflow == NewWorkflowElemData(<<"smoke.yml">>, RepoUrl(FleetOwner, RepoName(1)),
                                    FleetOwner, RepoName(1), EmptyStr)

IdleProject == NewProjectData(FleetOwner, RepoName(1))

Init ==
    /\ \E repos \in ReposInputs : all_projects = read_yaml_file(repos)
    /\ cursor = 0
    /\ stats = << >>
    /\ lastCall = << >>
    /\ wf = IdleWorkflow
    /\ project = IdleProject

FetchStatus ==
    /\ cursor < FleetSize(all_projects)
    /\ \E status \in Statuses, conclusion_time \in FleetTimes, is_stale \in BOOLEAN :
          /\ all_projects' = SetInFleet(all_projects, cursor + 1, status,
                                        conclusion_time, is_stale)
          /\ lastCall' = <<[op |-> "set_status", status |-> status,
                            conclusion_time |-> conclusion_time,
                            is_stale |-> is_stale]>>
    /\ cursor' = cursor + 1
    /\ UNCHANGED <<stats, wf, project>>

CalculateStatistics ==
    /\ LET r == calculate_statistics(all_projects)
       IN  /\ all_projects' = r.projects
           /\ stats' = <<r.stats>>
    /\ lastCall' = <<[op |-> "calculate_statistics",
                      before |-> [i \in 1..Len(all_projects) |->
                                     <<all_projects[i].passing_workflows,
                                       all_projects[i].failing_workflows>>]]>>
    /\ UNCHANGED <<cursor, wf, project>>

Next == FetchStatus \/ CalculateStatistics

Spec == Init /\ [][Next]_vars

----------------------------------------------------------------------------
(* One WorkflowElemData under arbitrary set_status calls *)

WorkflowInit ==
    /\ wf = IdleWorkflow
    /\ lastCall = << >>
    /\ all_projects = << >>
    /\ cursor = 0
    /\ stats = << >>
    /\ project = IdleProject

SetStatus ==
    /\ \E status \in Statuses, conclusion_time \in ConclusionTimes, is_stale \in BOOLEAN :
          /\ wf' = set_status(wf, status, conclusion_time, is_stale)
          /\ lastCall' = <<[op |-> "set_status", status |-> status,
                            conclusion_time |-> conclusion_time,
                            is_stale |-> is_stale,
                            repeat |-> /\ lastCall # << >>
                                       /\ lastCall[1].status = status
                                       /\ lastCall[1].conclusion_time = conclusion_time
                                       /\ lastCall[1].is_stale = is_stale]>>
    /\ UNCHANGED <<all_projects, cursor, stats, project>>

WorkflowNext == SetStatus

WorkflowSpec == WorkflowInit /\ [][WorkflowNext]_vars

----------------------------------------------------------------------------
(* One ProjectData: construction, attribute assignment, set_copier_version *)

Owners == {<<"lincc-frameworks">>, <<"test-org">>}

Repos == {<<"repo1">>, <<"repo2">>}

ThisVersions ==
    {<< >>} \cup {<<ma, mi, pa>> : ma \in {0, 1, 2}, mi \in {1, 2, 10}, pa \in {0, 9}}

TemplateVersions == {<<1, 2, 0>>, <<0, 10, 0>>}

ProjectInit ==
    /\ \E owner \in Owners, repo \in Repos : project = NewProjectData(owner, repo)
    /\ lastCall = << >>
    /\ wf = IdleWorkflow
    /\ all_projects = << >>
    /\ cursor = 0
    /\ stats = << >>

SetOwner ==
    /\ \E owner \in Owners :
          /\ project' = [project EXCEPT !.owner = owner]
          /\ lastCall' = <<[op |-> "owner", value |-> owner]>>
    /\ UNCHANGED <<wf, all_projects, cursor, stats>>

SetRepo ==
    /\ \E repo \in Repos :
          /\ project' = [project EXCEPT !.repo = repo]
          /\ lastCall' = <<[op |-> "repo", value |-> repo]>>
    /\ UNCHANGED <<wf, all_projects, cursor, stats>>

SetCopierVersion ==
    /\ \E this_version \in ThisVersions, template_version \in TemplateVersions :
          /\ project' = set_copier_version(project, this_version, template_version)
          /\ lastCall' = <<[op |-> "set_copier_version",
                            this_version |-> this_version,
                            template_version |-> template_version]>>
    /\ UNCHANGED <<wf, all_projects, cursor, stats>>

ProjectNext == SetOwner \/ SetRepo \/ SetCopierVersion

ProjectSpec == ProjectInit /\ [][ProjectNext]_vars

----------------------------------------------------------------------------
(* Properties *)

RECURSIVE SumSeq(_)
SumSeq(s) == IF s = << >> THEN 0 ELSE Head(s) + SumSeq(Tail(s))

SlotsOf(p) == <<p.smoke_test, p.build_docs, p.benchmarks, p.live_build>>

NamedPresent(p) == Cardinality({i \in 1..4 : SlotsOf(p)[i] # << >>})

CountIn(p, P(_)) ==
    Cardinality({i \in 1..4 : SlotsOf(p)[i] # << >> /\ P(SlotsOf(p)[i][1])})
    + Cardinality({j \in 1..Len(p.other_workflows) : P(p.other_workflows[j])})

FleetCount(projects, P(_)) ==
    SumSeq([i \in 1..Len(projects) |-> CountIn(projects[i], P)])

IsSuccess(w) == w.workflow_status = "success"
IsFailure(w) == w.workflow_status = "failure"
IsPending(w) == w.workflow_status = "pending"
IsUnknown(w) == w.workflow_status \notin {"success", "failure", "pending"}
IsStale(w) == w.is_stale

JustCalculated == lastCall # << >> /\ lastCall[1].op = "calculate_statistics"

(* C1: after any sequence of set_status calls the display class and the   *)
(* icon are the ones of the current status: green/check for success,      *)
(* red/xmark for failure, yellow/question for every other status.         *)
DisplayMatchesStatus ==
    /\ wf.display_class =
          (IF wf.workflow_status = "success" THEN "green-cell"
           ELSE IF wf.workflow_status = "failure" THEN "red-cell"
           ELSE "yellow-cell")
    /\ wf.icon_class =
          (IF wf.workflow_status = "success" THEN "fa-solid fa-circle-check"
           ELSE IF wf.workflow_status = "failure" THEN "fa-solid fa-circle-xmark"
           ELSE "fa-solid fa-circle-question")

(* C2: right after calculate_statistics every project's passing_workflows *)
(* is the number of its workflows with status success and its             *)
(* failing_workflows the number with status failure, whatever the         *)
(* counters held before.                                                  *)
PerProjectCountersExact ==
    JustCalculated =>
        \A i \in 1..Len(all_projects) :
            /\ all_projects[i].passing_workflows = CountIn(all_projects[i], IsSuccess)
            /\ all_projects[i].failing_workflows = CountIn(all_projects[i], IsFailure)

PerProjectCountersOverwritten ==
    /\ JustCalculated
    /\ \E i \in 1..Len(all_projects) :
          /\ lastCall[1].before[i] = <<1, 0>>
          /\ all_projects[i].passing_workflows = 1
          /\ all_projects[i].failing_workflows = 1

(* C3: total_workflows is the sum over the projects of the number of      *)
(* present named slots plus the length of other_workflows.                *)
TotalIsSlotsPlusOthers ==
    JustCalculated =>
        stats[1].total_workflows =
            SumSeq([i \in 1..Len(all_projects) |->
                       NamedPresent(all_projects[i]) + Len(all_projects[i].other_workflows)])

TotalWithNamedAndOther ==
    /\ JustCalculated
    /\ stats[1].total_workflows = 2
    /\ \E i \in 1..Len(all_projects) :
          /\ NamedPresent(all_projects[i]) = 1
          /\ Len(all_projects[i].other_workflows) = 1

(* C4: passing + failing + pending never exceeds total_workflows, and the *)
(* shortfall is the number of workflows whose status is none of success,  *)
(* failure, pending.                                                      *)
BucketsShortByUnknown ==
    JustCalculated =>
        LET st == stats[1]
            named == st.passing_count + st.failing_count + st.pending_count
        IN  /\ named <= st.total_workflows
            /\ st.total_workflows - named = FleetCount(all_projects, IsUnknown)

UnknownStatusCounted ==
    /\ JustCalculated
    /\ FleetCount(all_projects, IsUnknown) = 1
    /\ stats[1].total_workflows = 2
    /\ stats[1].pending_count = 1
    /\ stats[1].passing_count + stats[1].failing_count = 0

(* C5: stale_count is the number of workflows with is_stale true whatever *)
(* their status, and a stale workflow is still counted in the bucket of   *)
(* its status.                                                            *)
StaleIndependentOfStatus ==
    JustCalculated =>
        /\ stats[1].stale_count = FleetCount(all_projects, IsStale)
        /\ stats[1].passing_count = FleetCount(all_projects, IsSuccess)
        /\ stats[1].failing_count = FleetCount(all_projects, IsFailure)
        /\ stats[1].pending_count = FleetCount(all_projects, IsPending)

StaleAndSuccess(w) == w.is_stale /\ w.workflow_status = "success"

StaleSuccessCountedTwice ==
    /\ JustCalculated
    /\ FleetCount(all_projects, StaleAndSuccess) = 1
    /\ stats[1].passing_count = 1
    /\ stats[1].stale_count = 1
    /\ stats[1].failing_count = 1

Observable(w) ==
    <<w.workflow_status, w.conclusion_time, w.conclusion_time_one_line,
      w.is_stale, w.display_class, w.icon_class>>

(* C6: a set_status call with the same arguments as the call before it    *)
(* leaves the observable state as it was after the first call.            *)
SetStatusIdempotent ==
    [][(lastCall' # << >> /\ lastCall'[1].repeat) => Observable(wf') = Observable(wf)]_vars

SetStatusRepeated ==
    /\ lastCall # << >>
    /\ lastCall[1].repeat
    /\ wf.workflow_status = "pending"
    /\ wf.display_class = "green-cell"
    /\ wf.is_stale
    /\ wf.conclusion_time = <<"1 day", "<br>">>
    /\ wf.conclusion_time_one_line = <<"1 day", " ">>

NoWorkflows ==
    \A i \in 1..Len(all_projects) :
        NamedPresent(all_projects[i]) = 0 /\ all_projects[i].other_workflows = << >>

(* C7: with no workflow in the input, calculate_statistics returns zero   *)
(* for every count and both percentages, and repo_count is the number of  *)
(* input projects.                                                        *)
EmptyFleetAllZero ==
    (JustCalculated /\ NoWorkflows) =>
        /\ stats[1].total_workflows = 0
        /\ stats[1].passing_count = 0
        /\ stats[1].failing_count = 0
        /\ stats[1].stale_count = 0
        /\ stats[1].pending_count = 0
        /\ stats[1].passing_percent = 0
        /\ stats[1].failing_percent = 0
        /\ stats[1].repo_count = Len(all_projects)

EmptyProjectsAggregated ==
    /\ JustCalculated
    /\ NoWorkflows
    /\ Len(all_projects) = 2
    /\ stats[1].repo_count = 2

(* C8: in every state of a ProjectData, repo_url is                       *)
(* https://github.com/{owner}/{repo} for the current owner and repo, also *)
(* after owner or repo has been assigned a different value.               *)
RepoUrlFollowsOwnerRepo ==
    project.repo_url = <<"https://github.com/">> \o project.owner \o <<"/">> \o project.repo

Weight(v) == v[1] * 10000 + v[2] * 100 + v[3]

ComplianceClass(this_version, baseline) ==
    IF Weight(this_version) < Weight(baseline) THEN "yellow-cell"
    ELSE IF Weight(this_version) = Weight(baseline) THEN "green-cell"
    ELSE "red-cell"

(* C9: set_copier_version changes nothing when this_version is absent;    *)
(* otherwise it stores the string form of this_version and sets the class *)
(* by numeric major, minor, patch precedence: below the baseline yellow,  *)
(* equal green, above red (1.10.0 is above 1.2.0, 1.1.9 below).           *)
CopierVersionClassified ==
    [][(lastCall' # << >> /\ lastCall'[1].op = "set_copier_version") =>
          LET tv == lastCall'[1].this_version
              bv == lastCall'[1].template_version
          IN  IF tv = << >> THEN project' = project
              ELSE /\ project' =
                         [project EXCEPT
                             !.copier_version = VersionStr(tv),
                             !.copier_version_display_class = ComplianceClass(tv, bv)]
                   /\ (tv = <<1, 10, 0>> =>
                          project'.copier_version = <<"1", ".", "1", "0", ".", "0">>)]_vars

NumericNotLexical ==
    /\ lastCall # << >>
    /\ lastCall[1].op = "set_copier_version"
    /\ lastCall[1].this_version = <<1, 10, 0>>
    /\ lastCall[1].template_version = <<1, 2, 0>>
    /\ project.copier_version = <<"1", ".", "1", "0", ".", "0">>
    /\ project.copier_version_display_class = "red-cell"

(* C10: calculate_statistics changes nothing but passing_workflows and    *)
(* failing_workflows of the input projects, and a second call on the      *)
(* snapshot it leaves returns the same statistics and the same counters.  *)
OnlyCountersWritten ==
    [][(lastCall' # << >> /\ lastCall'[1].op = "calculate_statistics") =>
          /\ Len(all_projects') = Len(all_projects)
          /\ \A i \in 1..Len(all_projects) :
                all_projects'[i] =
                    [all_projects[i] EXCEPT
                        !.passing_workflows = all_projects'[i].passing_workflows,
                        !.failing_workflows = all_projects'[i].failing_workflows]
          /\ calculate_statistics(all_projects').stats = stats'[1]
          /\ calculate_statistics(all_projects').projects = all_projects']_vars

CountersChangedRestKept ==
    /\ JustCalculated
    /\ \E i \in 1..Len(all_projects) :
          /\ lastCall[1].before[i] = <<0, 0>>
          /\ all_projects[i].passing_workflows = 1
          /\ all_projects[i].other_workflows # << >>
          /\ all_projects[i].other_workflows[1].is_stale
          /\ all_projects[i].other_workflows[1].conclusion_time # << >>

====
